---------------------------- MODULE Spec2Model ----------------------------
(***************************************************************************)
(* ED-Highwayman (src/src/main.rs): a neutron-star router.  main reads two *)
(* system names and a base jump range, resolves aliases, loads the        *)
(* embedded star store, checks both systems are neutron stars and runs    *)
(* greedy_fast_route, which hops from neutron star to neutron star; every *)
(* hop needs a general star found by find_bridge_general.                 *)
(*                                                                         *)
(* Numbers.  The program computes in f32.  Lengths are modelled in fixed  *)
(* point, LY units to the light-year, so that the program's tolerances    *)
(* 1e-6 and 1e-3 are 1 and 1000 units and can decide a comparison.  The   *)
(* point clouds lie on the x axis (y = z = 0, as in the specification's   *)
(* own scenario): there sqrt(sq_dist(a, b)) is |a.x - b.x| exactly, and a *)
(* comparison of squared lengths is the comparison of the lengths.        *)
(***************************************************************************)
EXTENDS Integers, Sequences, FiniteSets, TLC

LY == 1000000

\* const GENERAL_BOOST: f32 = 6.0
GENERAL_BOOST == 6

\* the hard ceiling 1000.0 of the working limit, in light-years
CeilingLy == 1000

\* the default of max_distance, 30.0, in light-years
DefaultLy == 30

\* the stall notice is printed every 25th stall
NoticeEvery == 25

Ceiling == CeilingLy * LY
\* the literals 1e-6 and 1e-3
Eps6 == LY \div 1000000
Eps3 == LY \div 1000

None == [some |-> FALSE]

Abs(x) == IF x < 0 THEN -x ELSE x

\* d > l * k for d >= 0 and k >= 1, without forming the product: the model's
\* integers are 32 bits wide, where f32 does not overflow at these magnitudes
Over(d, l, k) == d \div k > l \/ (d \div k = l /\ d % k > 0)
Max(a, b) == IF a >= b THEN a ELSE b

-----------------------------------------------------------------------------
(* Names.  A name is a sequence of chunks whose concatenation is the text; *)
(* the reserved marker "JP:" is a chunk of its own.                        *)

JP == "JP:"

StripPrefixJP(name) ==
    IF Len(name) > 0 /\ Head(name) = JP THEN [some |-> TRUE, rest |-> Tail(name)]
    ELSE None

-----------------------------------------------------------------------------
(* The store image (STORE_BYTES): per entity x, the category byte and the  *)
(* name; ok = FALSE is an image that is truncated or holds invalid UTF-8.  *)

Ent(x, star, name) == [x |-> x, star |-> star, name |-> name]

\* the scenario of the specification: neutron stars at 0, 50, 100, a general
\* star at 25
ImgScenario ==
    << Ent(0, 2, <<"Jackson's Lighthouse">>), Ent(50 * LY, 2, <<"Beta">>),
       Ent(100 * LY, 2, <<"Gamma">>), Ent(25 * LY, 1, <<"Bridge">>) >>

\* two general stars whose leg_base for the hop 0 -> 10 differ by 1e-6
ImgNearTie ==
    << Ent(0, 2, <<"Jackson's Lighthouse">>), Ent(10 * LY, 2, <<"Beta">>),
       Ent(12 * LY, 1, <<"Gamma">>), Ent(8 * LY - Eps6, 1, <<"Bridge">>),
       Ent(14 * LY, 1, <<"Delta">>) >>

\* no general star at all, an entity of unknown category (byte 7)
ImgNoGeneral ==
    << Ent(0, 2, <<"Jackson's Lighthouse">>), Ent(50 * LY, 2, <<"Beta">>),
       Ent(25 * LY, 7, <<"Gamma">>), Ent(30 * LY, 0, <<"Bridge">>) >>

\* neutron stars closer to the goal by less than, exactly and more than 1e-3
ImgProgress ==
    << Ent(0, 2, <<"Jackson's Lighthouse">>), Ent(30 * LY, 2, <<"Beta">>),
       Ent(Eps3 \div 2, 2, <<"Gamma">>), Ent(Eps3, 2, <<"Delta">>),
       Ent(2 * Eps3, 2, <<"Epsilon">>), Ent(15 * LY, 1, <<"Bridge">>),
       Ent(5 * LY, 1, <<"Near">>) >>

\* the only general star lies more than 1000 ly from either neutron star
ImgWide ==
    << Ent(0, 2, <<"Jackson's Lighthouse">>), Ent(100 * LY, 2, <<"Beta">>),
       Ent(1200 * LY, 1, <<"Bridge">>) >>

\* two neutron stars at the same distance from the goal, two at the same
\* place, a name used twice, a star of unknown category (byte 0) among them
ImgTies ==
    << Ent(0, 2, <<"Jackson's Lighthouse">>), Ent(50 * LY, 2, <<"Beta">>),
       Ent(40 * LY, 2, <<"Gamma">>), Ent(60 * LY, 2, <<"Delta">>),
       Ent(50 * LY, 2, <<"Gamma">>), Ent(45 * LY, 1, <<"Bridge">>),
       Ent(20 * LY, 1, <<JP, "Sol">>), Ent(52 * LY, 0, <<"Epsilon">>) >>

\* general stars near the destination and too far from the source, one of
\* them by 3e-6 at the limit 15; a route whose first leg needs more range than
\* its second
ImgFar ==
    << Ent(0, 2, <<"Jackson's Lighthouse">>), Ent(100 * LY, 2, <<"Beta">>),
       Ent(130 * LY, 2, <<"Gamma">>), Ent(90 * LY + 3 * Eps6, 1, <<"Bridge">>),
       Ent(125 * LY, 1, <<"Delta">>), Ent(110 * LY, 1, <<"Epsilon">>) >>

\* a hop at the very edge of the neutron query at the limit 10: the general
\* star 60 from the source and 10 from the destination, which is 70 away; a
\* second neutron star 1e-6 beyond the edge
ImgEdge ==
    << Ent(0, 2, <<"Jackson's Lighthouse">>), Ent(70 * LY, 2, <<"Beta">>),
       Ent(70 * LY + Eps6, 2, <<"Gamma">>), Ent(60 * LY, 1, <<"Bridge">>) >>

Images ==
    { [ok |-> TRUE, ents |-> e] :
        e \in {ImgScenario, ImgNearTie, ImgNoGeneral, ImgProgress, ImgTies,
               ImgWide, ImgFar, ImgEdge} }
    \cup { [ok |-> FALSE, ents |-> ImgScenario] }


-----------------------------------------------------------------------------
(* load_store_from_bytes.  Ids are the positions of the parallel sequences, *)
(* 1..count here where the program counts from 0.                           *)

\* match star[0] { 1 => General, 2 => Neutron, _ => Unknown }
KindOfByte(b) ==
    IF b = 1 THEN "General" ELSE IF b = 2 THEN "Neutron" ELSE "Unknown"

\* name_to_idx.insert(name, idx) in id order: the last entity of a name wins
NameToIdx(names) ==
    [ n \in {names[i] : i \in DOMAIN names} |->
        CHOOSE i \in DOMAIN names :
            /\ names[i] = n
            /\ \A j \in DOMAIN names : names[j] = n => j <= i ]

load_store_from_bytes(image) ==
    IF ~image.ok THEN [ok |-> FALSE]
    ELSE [ ok |-> TRUE,
           coords |-> [i \in DOMAIN image.ents |-> image.ents[i].x],
           names |-> [i \in DOMAIN image.ents |-> image.ents[i].name],
           main_stars |-> [i \in DOMAIN image.ents |-> KindOfByte(image.ents[i].star)],
           name_to_idx |-> NameToIdx([i \in DOMAIN image.ents |-> image.ents[i].name]) ]

build_kdtree_any(store, kind) == DOMAIN store.coords

\* the tree of one kind: the ids it holds (their points are store.coords)
build_kdtree_of(store, kind) ==
    { idx \in DOMAIN store.coords : store.main_stars[idx] = kind }

\* sqrt(sq_dist(a, b)) of two points of the x axis
Dist(a, b) == Abs(a - b)

\* KdTree::within(center, (l * k)^2): the ids of the tree in the closed ball
\* of radius l * k around center
Within(tree, coords, center, l, k) ==
    { i \in tree : ~Over(Dist(coords[i], center), l, k) }

\* the orders in which a query may hand out its results
RECURSIVE Orders(_)
Orders(S) ==
    IF S = {} THEN { <<>> }
    ELSE UNION { { <<x>> \o s : s \in Orders(S \ {x}) } : x \in S }

-----------------------------------------------------------------------------
(* find_bridge_general                                                      *)

TooFarFromSrcNever(dist_src, base_limit) == FALSE

\* dist_src_sq > src_radius_sq, with src_radius_sq = (base_limit * BOOST)^2
TooFarFromSrc(dist_src, base_limit) == Over(dist_src, base_limit, GENERAL_BOOST)

\* dist_src / GENERAL_BOOST, rounded to the nearest unit
DivBoost(d) ==
    d \div GENERAL_BOOST + (IF 2 * (d % GENERAL_BOOST) >= GENERAL_BOOST THEN 1 ELSE 0)

\* (dist_src / GENERAL_BOOST).max(dist_dst)
LegBase(dist_src, dist_dst) == Max(DivBoost(dist_src), dist_dst)

\* leg_base > base_limit + 1e-6
OverLimit(leg_base, base_limit) == leg_base > base_limit + Eps6

ImprovesAlways(leg_base, best_base) == TRUE

\* leg_base + 1e-6 < best_base
Improves(leg_base, best_base) == leg_base + Eps6 < best_base

\* one pass of the loop body over the general star gen_idx
BridgeStep(best, gen_idx, src_idx, dst_idx, coords, base_limit) ==
    LET dist_src == Dist(coords[src_idx], coords[gen_idx])
        dist_dst == Dist(coords[dst_idx], coords[gen_idx])
        leg_base == LegBase(dist_src, dist_dst)
        found == [some |-> TRUE, idx |-> gen_idx, base |-> leg_base]
    IN  IF TooFarFromSrc(dist_src, base_limit) THEN best
        ELSE IF OverLimit(leg_base, base_limit) THEN best
        ELSE IF best.some
             THEN IF Improves(leg_base, best.base) THEN found ELSE best
             ELSE found

RECURSIVE BridgeLoop(_, _, _, _, _, _)
BridgeLoop(best, iteration, src_idx, dst_idx, coords, base_limit) ==
    IF iteration = <<>> THEN best
    ELSE BridgeLoop(BridgeStep(best, Head(iteration), src_idx, dst_idx, coords, base_limit),
                    Tail(iteration), src_idx, dst_idx, coords, base_limit)

\* the results general_tree.within(&coords[dst_idx], base_limit^2) may iterate
BridgeQuery(dst_idx, coords, general_tree, base_limit) ==
    Orders(Within(general_tree, coords, coords[dst_idx], base_limit, 1))

\* find_bridge_general, given the iteration of its query
find_bridge_general(src_idx, dst_idx, coords, iteration, base_limit) ==
    BridgeLoop(None, iteration, src_idx, dst_idx, coords, base_limit)

-----------------------------------------------------------------------------
(* load_aliases and resolve_alias.  The file jumppoints.json is absent (and *)
(* can be created, or cannot: a directory that is read-only), or holds a   *)
(* JSON object (keys to values, of which some are strings), or holds       *)
(* something that is no JSON object.                                       *)

Str(name) == [str |-> TRUE, s |-> name]
NotStr == [str |-> FALSE]

\* json!({"Sol": "Jackson's Lighthouse", "Colonia": "Magellan"})
DefaultAliases ==
    [ k \in {<<"Sol">>, <<"Colonia">>} |->
        IF k = <<"Sol">> THEN Str(<<"Jackson's Lighthouse">>) ELSE Str(<<"Magellan">>) ]

CustomAliases ==
    [ k \in {<<"Sol">>, <<"Home">>} |->
        IF k = <<"Sol">> THEN Str(<<"Beta">>) ELSE NotStr ]

FileAbsent == [exists |-> FALSE, creatable |-> TRUE]
FileUncreatable == [exists |-> FALSE, creatable |-> FALSE]
FileOf(obj) == [exists |-> TRUE, object |-> TRUE, obj |-> obj]
FileNoObject == [exists |-> TRUE, object |-> FALSE]

AliasFiles == {FileAbsent, FileUncreatable, FileOf(CustomAliases), FileNoObject}

FileAfterLoadKeeps(file) == file

\* the file after std::fs::write of the default, when it did not exist
FileAfterLoad(file) ==
    IF file.exists THEN file
    ELSE IF file.creatable THEN FileOf(DefaultAliases)
    ELSE file

\* load_aliases(path): Ok(map of the string-valued entries) or Err (the write
\* or the open failed, or the file holds no JSON object)
load_aliases(file) ==
    LET f == FileAfterLoad(file)
    IN  IF ~f.exists \/ ~f.object THEN [ok |-> FALSE]
        ELSE [ ok |-> TRUE,
               map |-> [ k \in {q \in DOMAIN f.obj : f.obj[q].str} |-> f.obj[k].s ] ]

\* Result::unwrap_or_default: the empty map on Err
UnwrapOrDefault(r) == IF r.ok THEN r.map ELSE << >>

resolve_alias(name, aliases) ==
    LET stripped == StripPrefixJP(name)
    IN  IF stripped.some /\ stripped.rest \in DOMAIN aliases
        THEN aliases[stripped.rest]
        ELSE name

-----------------------------------------------------------------------------
(* The inputs main reads.                                                  *)

RawNames ==
    { <<"Jackson's Lighthouse">>, <<"Beta">>, <<"Gamma">>, <<"Bridge">>,
      <<JP, "Sol">>, <<JP, "Nowhere">>, <<"Nowhere">> }

\* the third line typed: a number, in light-years, or text that does not parse
Typed(ly) == [parsed |-> TRUE, v |-> ly * LY]
NoNumber == [parsed |-> FALSE]

BaseLy == 10
AboveLy == 1500

DistanceInputs == { NoNumber, Typed(BaseLy), Typed(CeilingLy), Typed(AboveLy) }

\* let mut max_distance = 30.0; if let Ok(v) = input.trim().parse() { max_distance = v }
ParseDistance(inp) == IF inp.parsed THEN inp.v ELSE DefaultLy * LY

-----------------------------------------------------------------------------
VARIABLES
    image,              \* STORE_BYTES
    alias_file,         \* jumppoints.json
    route_txt,          \* route.txt
    entry,              \* "main", or "direct": greedy_fast_route called by itself
    pc,                 \* where main is
    start_name_raw, goal_name_raw, input,
    start_name, goal_name, max_distance,
    store, neutron_tree, general_tree,
    start_idx, goal_idx,
    exit,               \* how main ended: "" while it runs, "Ok", or the error
    rpc,                \* where greedy_fast_route is
    base_limit, limit, current, generals, required_base, steps,
    no_progress_iters,
    candidates,         \* the sorted candidates the for loop has yet to try
    result,             \* what greedy_fast_route returned
    notices,            \* stall notices written to stderr
    legs,               \* history: the leg_base of every committed hop
    path,               \* history: start and every committed hop's star
    last,               \* history: the last call of find_bridge_general
    rejected,           \* history: the hops rejected at the working limit
    stalls              \* history: the stalls of the whole search

envVars == <<image, alias_file, route_txt, entry>>
mainVars == <<pc, start_name_raw, goal_name_raw, input, start_name, goal_name,
              max_distance, store, neutron_tree, general_tree, start_idx,
              goal_idx, exit>>
routerVars == <<rpc, base_limit, limit, current, generals, required_base, steps,
                no_progress_iters, candidates, result, notices>>
histVars == <<legs, path, last, rejected, stalls>>
vars == <<envVars, mainVars, routerVars, histVars>>

NoFile == [written |-> FALSE]
NoStore == [ok |-> FALSE]
NoCall == [called |-> FALSE]

RouterIdle ==
    /\ rpc = "idle"
    /\ base_limit = 0 /\ limit = 0 /\ current = 0
    /\ generals = <<>> /\ required_base = 0 /\ steps = 0
    /\ no_progress_iters = 0 /\ candidates = <<>>
    /\ result = None /\ notices = 0
    /\ legs = <<>> /\ path = <<>> /\ last = NoCall /\ rejected = {}
    /\ stalls = 0

\* main has printed its reminders and read its three lines
MainInit ==
    /\ entry = "main"
    /\ image \in Images
    /\ alias_file \in AliasFiles
    /\ route_txt = NoFile
    /\ start_name_raw \in RawNames
    /\ goal_name_raw \in RawNames
    /\ input \in DistanceInputs
    /\ pc = "read"
    /\ start_name = <<>> /\ goal_name = <<>>
    /\ max_distance = ParseDistance(input)
    /\ store = NoStore /\ neutron_tree = {} /\ general_tree = {}
    /\ start_idx = 0 /\ goal_idx = 0
    /\ exit = ""
    /\ RouterIdle

\* greedy_fast_route called by itself, on a loaded store, with two neutron
\* stars (the same one too) and a base limit
DirectInit ==
    /\ entry = "direct"
    /\ image \in {i \in Images : i.ok}
    /\ alias_file = FileAbsent
    /\ route_txt = NoFile
    /\ start_name_raw = <<>> /\ goal_name_raw = <<>>
    /\ input \in DistanceInputs \ {NoNumber}
    /\ pc = "routing"
    /\ start_name = <<>> /\ goal_name = <<>>
    /\ max_distance = ParseDistance(input)
    /\ store = load_store_from_bytes(image)
    /\ neutron_tree = build_kdtree_of(store, "Neutron")
    /\ general_tree = build_kdtree_of(store, "General")
    /\ start_idx \in DOMAIN store.coords /\ store.main_stars[start_idx] = "Neutron"
    /\ goal_idx \in DOMAIN store.coords /\ store.main_stars[goal_idx] = "Neutron"
    /\ exit = ""
    /\ rpc = "head"
    /\ base_limit = max_distance /\ limit = max_distance /\ current = start_idx
    /\ generals = <<>> /\ required_base = 0 /\ steps = 0
    /\ no_progress_iters = 0 /\ candidates = <<>>
    /\ result = None /\ notices = 0
    /\ legs = <<>> /\ path = <<start_idx>> /\ last = NoCall /\ rejected = {}
    /\ stalls = 0

Init == MainInit \/ DirectInit

-----------------------------------------------------------------------------
(* main                                                                    *)

Exit(msg) == pc' = "exit" /\ exit' = msg

\* lines 277-279: the aliases are loaded (which creates the file when it is
\* absent) and both names resolved
ResolveNames ==
    /\ pc = "read"
    /\ LET aliases == UnwrapOrDefault(load_aliases(alias_file))
       IN  /\ start_name' = resolve_alias(start_name_raw, aliases)
           /\ goal_name' = resolve_alias(goal_name_raw, aliases)
    /\ alias_file' = FileAfterLoad(alias_file)
    /\ pc' = "resolved"
    /\ UNCHANGED <<image, route_txt, entry, start_name_raw, goal_name_raw, input,
                   max_distance, store, neutron_tree, general_tree, start_idx,
                   goal_idx, exit>>
    /\ UNCHANGED <<routerVars, histVars>>

\* lines 281-283: the store is loaded and the two trees are built
LoadStore ==
    /\ pc = "resolved"
    /\ LET s == load_store_from_bytes(image)
       IN  IF s.ok
           THEN /\ store' = s
                /\ neutron_tree' = build_kdtree_of(s, "Neutron")
                /\ general_tree' = build_kdtree_of(s, "General")
                /\ pc' = "loaded"
                /\ exit' = exit
           ELSE /\ Exit("failed to load embedded store")
                /\ UNCHANGED <<store, neutron_tree, general_tree>>
    /\ UNCHANGED <<envVars, start_name_raw, goal_name_raw, input, start_name,
                   goal_name, max_distance, start_idx, goal_idx>>
    /\ UNCHANGED <<routerVars, histVars>>

\* lines 285-292: both names are looked up, the start first
Lookup ==
    /\ pc = "loaded"
    /\ IF start_name \notin DOMAIN store.name_to_idx
       THEN Exit("Start system not found") /\ UNCHANGED <<start_idx, goal_idx>>
       ELSE /\ start_idx' = store.name_to_idx[start_name]
            /\ IF goal_name \notin DOMAIN store.name_to_idx
               THEN Exit("Destination system not found") /\ goal_idx' = goal_idx
               ELSE /\ goal_idx' = store.name_to_idx[goal_name]
                    /\ pc' = "found"
                    /\ exit' = exit
    /\ UNCHANGED <<envVars, start_name_raw, goal_name_raw, input, start_name,
                   goal_name, max_distance, store, neutron_tree, general_tree>>
    /\ UNCHANGED <<routerVars, histVars>>

\* matches!(store.main_stars.get(idx), Some(StarKind::Neutron))
IsNeutron(s, idx) == idx \in DOMAIN s.main_stars /\ s.main_stars[idx] = "Neutron"

KindErrorStartOnly(s, si, gi) ==
    IF ~IsNeutron(s, si) THEN "Start system must be a neutron star" ELSE ""

\* the two bail!s of lines 294-299, the start's first
KindError(s, si, gi) ==
    IF ~IsNeutron(s, si) THEN "Start system must be a neutron star"
    ELSE IF ~IsNeutron(s, gi) THEN "Destination system must be a neutron star"
    ELSE ""

\* lines 294-299
CheckKinds ==
    /\ pc = "found"
    /\ LET err == KindError(store, start_idx, goal_idx)
       IN  IF err # "" THEN Exit(err) ELSE pc' = "checked" /\ exit' = exit
    /\ UNCHANGED <<envVars, start_name_raw, goal_name_raw, input, start_name,
                   goal_name, max_distance, store, neutron_tree, general_tree,
                   start_idx, goal_idx>>
    /\ UNCHANGED <<routerVars, histVars>>

SameSystemNever(si, gi) == FALSE

\* start_idx == goal_idx of line 300
SameSystem(si, gi) == si = gi

\* lines 300-305: the same system twice is printed and main returns Ok
Trivial ==
    /\ pc = "checked"
    /\ SameSystem(start_idx, goal_idx)
    /\ Exit("Ok")
    /\ UNCHANGED <<envVars, start_name_raw, goal_name_raw, input, start_name,
                   goal_name, max_distance, store, neutron_tree, general_tree,
                   start_idx, goal_idx>>
    /\ UNCHANGED <<routerVars, histVars>>

\* lines 315-322 and 136-141: greedy_fast_route is called and sets up its locals
CallRouter ==
    /\ pc = "checked"
    /\ ~SameSystem(start_idx, goal_idx)
    /\ pc' = "routing"
    /\ rpc' = "head"
    /\ base_limit' = max_distance
    /\ limit' = max_distance
    /\ current' = start_idx
    /\ generals' = <<>>
    /\ required_base' = 0
    /\ steps' = 0
    /\ no_progress_iters' = 0
    /\ path' = <<start_idx>>
    /\ UNCHANGED <<envVars, start_name_raw, goal_name_raw, input, start_name,
                   goal_name, max_distance, store, neutron_tree, general_tree,
                   start_idx, goal_idx, exit>>
    /\ UNCHANGED <<candidates, result, notices, legs, last, rejected, stalls>>

-----------------------------------------------------------------------------
(* greedy_fast_route                                                       *)

\* the closure goal_dist
goal_dist(idx) == Dist(store.coords[idx], store.coords[goal_idx])

ProgressNoTolerance(dist_goal, cur_goal) == dist_goal < cur_goal

ProgressAny(dist_goal, cur_goal) == TRUE

\* dist_goal + 1e-3 < cur_goal
Progress(dist_goal, cur_goal) == dist_goal + Eps3 < cur_goal

EdgeFactorBoost == GENERAL_BOOST

\* GENERAL_BOOST + 1.0: the radius of the neutron query is limit times this
EdgeFactor == GENERAL_BOOST + 1

\* lines 151-160: the stars of the neutron query that are pushed as candidates
Pushed(cur, l) ==
    { nidx \in Within(neutron_tree, store.coords, store.coords[cur], l, EdgeFactor) :
        /\ ~(nidx = cur \/ store.main_stars[nidx] # "Neutron")
        /\ Progress(goal_dist(nidx), goal_dist(cur)) }

\* candidates before the sort: the (dist_goal, nidx) pushed, in the order in
\* which the query hands these stars out
Collected(iteration) ==
    [ i \in DOMAIN iteration |->
        [dist_goal |-> goal_dist(iteration[i]), nidx |-> iteration[i]] ]

AfterReversed(a, b) == a.dist_goal < b.dist_goal

\* a.0.partial_cmp(&b.0): does a come after b
After(a, b) == a.dist_goal > b.dist_goal

\* e put into the sorted sequence behind every element it does not precede
RECURSIVE Insert(_, _)
Insert(sorted, e) ==
    IF sorted = <<>> THEN <<e>>
    ELSE IF After(sorted[Len(sorted)], e)
         THEN Append(Insert(SubSeq(sorted, 1, Len(sorted) - 1), e), sorted[Len(sorted)])
         ELSE Append(sorted, e)

\* candidates.sort_by(..): a stable sort
RECURSIVE SortBy(_)
SortBy(cands) ==
    IF cands = <<>> THEN <<>>
    ELSE Insert(SortBy(SubSeq(cands, 1, Len(cands) - 1)), cands[Len(cands)])

NewRequiredLast(req, leg_base) == leg_base

NewRequiredSum(req, leg_base) == req + leg_base

\* required_base.max(leg_base)
NewRequired(req, leg_base) == Max(req, leg_base)

RaisedNot(l) == l

RaisedTwice(l) == l + 2 * LY

\* limit += 1.0
Raised(l) == l + LY

OverCeilingTwice(l) == l > 2 * Ceiling

\* limit > 1000.0
OverCeiling(l) == l > Ceiling

JumpsSteps(n) == n

\* steps.saturating_mul(2), far from saturating
Jumps(n) == n * 2

\* no_progress_iters % 25 == 0
NoticeDue(n) == n % NoticeEvery = 0

\* line 147, condition true, and lines 148-163: the candidates of this round
LoopHead ==
    /\ pc = "routing" /\ rpc = "head"
    /\ current # goal_idx
    /\ \E iteration \in Orders(Pushed(current, limit)) :
           candidates' = SortBy(Collected(iteration))
    /\ rpc' = "scan"
    /\ UNCHANGED <<envVars, mainVars, histVars>>
    /\ UNCHANGED <<base_limit, limit, current, generals, required_base, steps,
                   no_progress_iters, result, notices>>

\* line 147, condition false, and line 194
Found ==
    /\ pc = "routing" /\ rpc = "head"
    /\ current = goal_idx
    /\ result' = [some |-> TRUE, generals |-> generals,
                  required_base |-> required_base, jumps |-> Jumps(steps)]
    /\ rpc' = "returned"
    /\ UNCHANGED <<envVars, mainVars, histVars>>
    /\ UNCHANGED <<base_limit, limit, current, generals, required_base, steps,
                   no_progress_iters, candidates, notices>>

Call(src, dst, l, iteration, r) ==
    [called |-> TRUE, src |-> src, dst |-> dst, limit |-> l,
     iteration |-> iteration, found |-> r]

HopKeepsStalls ==
    /\ pc = "routing" /\ rpc = "scan"
    /\ candidates # <<>>
    /\ LET cand == Head(candidates).nidx
       IN  \E iteration \in BridgeQuery(cand, store.coords, general_tree, limit) :
             LET r == find_bridge_general(current, cand, store.coords, iteration, limit)
             IN  /\ r.some
                 /\ required_base' = NewRequired(required_base, r.base)
                 /\ generals' = Append(generals, r.idx)
                 /\ current' = cand
                 /\ steps' = steps + 1
                 /\ no_progress_iters' = no_progress_iters
                 /\ legs' = Append(legs, r.base)
                 /\ path' = Append(path, cand)
                 /\ last' = Call(current, cand, limit, iteration, r)
    /\ candidates' = <<>>
    /\ rpc' = "head"
    /\ UNCHANGED <<envVars, mainVars>>
    /\ UNCHANGED <<base_limit, limit, result, notices, rejected, stalls>>

HopResetsLimit ==
    /\ pc = "routing" /\ rpc = "scan"
    /\ candidates # <<>>
    /\ LET cand == Head(candidates).nidx
       IN  \E iteration \in BridgeQuery(cand, store.coords, general_tree, limit) :
             LET r == find_bridge_general(current, cand, store.coords, iteration, limit)
             IN  /\ r.some
                 /\ required_base' = NewRequired(required_base, r.base)
                 /\ generals' = Append(generals, r.idx)
                 /\ current' = cand
                 /\ steps' = steps + 1
                 /\ no_progress_iters' = 0
                 /\ legs' = Append(legs, r.base)
                 /\ path' = Append(path, cand)
                 /\ last' = Call(current, cand, limit, iteration, r)
    /\ candidates' = <<>>
    /\ rpc' = "head"
    /\ UNCHANGED <<envVars, mainVars>>
    /\ limit' = base_limit
    /\ UNCHANGED <<base_limit, result, notices, rejected, stalls>>

\* lines 164-175, a bridge is found: the hop is committed and the for loop left
Hop ==
    /\ pc = "routing" /\ rpc = "scan"
    /\ candidates # <<>>
    /\ LET cand == Head(candidates).nidx
       IN  \E iteration \in BridgeQuery(cand, store.coords, general_tree, limit) :
             LET r == find_bridge_general(current, cand, store.coords, iteration, limit)
             IN  /\ r.some
                 /\ required_base' = NewRequired(required_base, r.base)
                 /\ generals' = Append(generals, r.idx)
                 /\ current' = cand
                 /\ steps' = steps + 1
                 /\ no_progress_iters' = 0
                 /\ legs' = Append(legs, r.base)
                 /\ path' = Append(path, cand)
                 /\ last' = Call(current, cand, limit, iteration, r)
    /\ candidates' = <<>>
    /\ rpc' = "head"
    /\ UNCHANGED <<envVars, mainVars>>
    /\ UNCHANGED <<base_limit, limit, result, notices, rejected, stalls>>

\* lines 164-167, no bridge: the for loop goes on to the next candidate
Reject ==
    /\ pc = "routing" /\ rpc = "scan"
    /\ candidates # <<>>
    /\ LET cand == Head(candidates).nidx
       IN  \E iteration \in BridgeQuery(cand, store.coords, general_tree, limit) :
             LET r == find_bridge_general(current, cand, store.coords, iteration, limit)
             IN  /\ ~r.some
                 /\ last' = Call(current, cand, limit, iteration, r)
                 /\ rejected' = rejected \cup {<<current, cand>>}
    /\ candidates' = Tail(candidates)
    /\ UNCHANGED <<envVars, mainVars>>
    /\ UNCHANGED <<rpc, base_limit, limit, current, generals, required_base, steps,
                   no_progress_iters, result, notices, legs, path, stalls>>

\* lines 178-191: no candidate had a bridge
Stall ==
    /\ pc = "routing" /\ rpc = "scan"
    /\ candidates = <<>>
    /\ limit' = Raised(limit)
    /\ no_progress_iters' = no_progress_iters + 1
    /\ notices' = IF NoticeDue(no_progress_iters') THEN notices + 1 ELSE notices
    /\ IF OverCeiling(limit')
       THEN result' = None /\ rpc' = "returned"
       ELSE result' = result /\ rpc' = "head"
    /\ rejected' = {}
    /\ stalls' = stalls + 1
    /\ UNCHANGED <<envVars, mainVars>>
    /\ UNCHANGED <<base_limit, current, generals, required_base, steps, candidates,
                   legs, path, last>>

-----------------------------------------------------------------------------
(* print_route and the end of main                                         *)

\* format!("{:.2}", x): x to the nearest hundredth
Hundredths(x) == (x + LY \div 200) \div (LY \div 100)

print_route(si, gi, gens, req, s) ==
    [ written |-> TRUE,
      required |-> Hundredths(req),
      jumps |-> Len(gens),
      names |-> <<s.names[si]>> \o [i \in DOMAIN gens |-> s.names[gens[i]]]
                \o <<s.names[gi]>> ]

\* lines 315-329: a route came back and is written to route.txt
Report ==
    /\ pc = "routing" /\ rpc = "returned" /\ entry = "main"
    /\ result.some
    /\ route_txt' = print_route(start_idx, goal_idx, result.generals,
                                result.required_base, store)
    /\ Exit("Ok")
    /\ UNCHANGED <<image, alias_file, entry, start_name_raw, goal_name_raw, input,
                   start_name, goal_name, max_distance, store, neutron_tree,
                   general_tree, start_idx, goal_idx>>
    /\ UNCHANGED <<routerVars, histVars>>

BailWrites ==
    /\ pc = "routing" /\ rpc = "returned" /\ entry = "main"
    /\ ~result.some
    /\ route_txt' = print_route(start_idx, goal_idx, generals, required_base, store)
    /\ Exit("No route found within search bounds")
    /\ UNCHANGED <<image, alias_file, entry, start_name_raw, goal_name_raw, input,
                   start_name, goal_name, max_distance, store, neutron_tree,
                   general_tree, start_idx, goal_idx>>
    /\ UNCHANGED <<routerVars, histVars>>

\* lines 330-332: no route came back
Bail ==
    /\ pc = "routing" /\ rpc = "returned" /\ entry = "main"
    /\ ~result.some
    /\ Exit("No route found within search bounds")
    /\ UNCHANGED <<envVars, start_name_raw, goal_name_raw, input, start_name,
                   goal_name, max_distance, store, neutron_tree, general_tree,
                   start_idx, goal_idx>>
    /\ UNCHANGED <<routerVars, histVars>>

Next ==
    \/ ResolveNames \/ LoadStore \/ Lookup \/ CheckKinds \/ Trivial \/ CallRouter
    \/ LoopHead \/ Found \/ Hop \/ Reject \/ Stall
    \/ Report \/ Bail

Spec == Init /\ [][Next]_vars

\* main and the router run on one thread and nothing makes them wait
FairSpec == Spec /\ WF_vars(Next)

\* the run is over
Terminated == pc = "exit" \/ (entry = "direct" /\ rpc = "returned")

-----------------------------------------------------------------------------
(* What the claims speak of.                                               *)

Returned == rpc = "returned"

\* find_bridge_general(s, d, l) returns a bridge
HasBridge(s, d, l) ==
    \E iteration \in BridgeQuery(d, store.coords, general_tree, l) :
        find_bridge_general(s, d, store.coords, iteration, l).some

\* no hop out of the start has a bridge at any limit of 1, 2, .. 1000 ly
NoHopOutOfStart ==
    \A d \in neutron_tree \ {start_idx} :
        \A k \in 1..CeilingLy : ~HasBridge(start_idx, d, k * LY)

\* the neutron stars strictly closer to the goal than the current position
HopsLeft == Cardinality({ n \in neutron_tree : goal_dist(n) < goal_dist(current) })

\* the stalls the ceiling still allows
StallsLeft ==
    IF Returned THEN 0
    ELSE IF limit > Ceiling THEN 1
    ELSE (Ceiling - limit) \div LY + 1

\* bounds the rounds of the while loop that are still to come
Measure == HopsLeft + StallsLeft

\* a round of the while loop ends: a hop is committed or the limit is raised
RoundEnds == rpc = "scan" /\ rpc' # "scan"

-----------------------------------------------------------------------------
\* C1 as claimed: greedy_fast_route terminates, and when no hop out of the
\* start has a bridge at any limit <= 1000 it returns None
C1_Original ==
    /\ <>Terminated
    /\ [](~(Returned /\ start_idx # goal_idx /\ result.some /\ NoHopOutOfStart))

\* C1 as amended: every run terminates (every round of the while loop lowers
\* Measure, a natural number), and with a base limit of at most 1000 the
\* router returns None when no hop out of the start has a bridge at any limit
\* <= 1000; a base limit above 1000 is searched once, at that limit
C1_Terminates ==
    /\ <>Terminated
    /\ [][RoundEnds => Measure' < Measure /\ Measure' >= 0]_vars
    /\ [](~(Returned /\ start_idx # goal_idx /\ base_limit <= Ceiling
            /\ result.some /\ NoHopOutOfStart))

\* the router gave up after escalating from the base limit 10 to the ceiling
C1_Witness ==
    /\ Returned /\ ~result.some /\ start_idx # goal_idx
    /\ base_limit = BaseLy * LY /\ limit > Ceiling
    /\ NoHopOutOfStart

-----------------------------------------------------------------------------
\* C2: every committed hop goes to a star whose distance to the goal is
\* smaller than that of the position before it by more than 1e-3
C2_Progress ==
    \A i \in 1..(Len(path) - 1) :
        goal_dist(path[i + 1]) + Eps3 < goal_dist(path[i])

\* a second hop was committed, and one hop gained no more than 2e-3
C2_Witness ==
    /\ Len(path) >= 3
    /\ \E i \in 1..(Len(path) - 1) :
           goal_dist(path[i]) - goal_dist(path[i + 1]) <= 2 * Eps3

-----------------------------------------------------------------------------
\* the range a jump over g needs: max(distance(S, g) / BOOST, distance(g, D))
LegOf(src, g, dst) ==
    Max(DivBoost(Dist(store.coords[src], store.coords[g])),
        Dist(store.coords[g], store.coords[dst]))

\* g is a general star that passes the three filters for (src, dst, l)
Survives(src, g, dst, l) ==
    /\ g \in DOMAIN store.main_stars /\ store.main_stars[g] = "General"
    /\ ~Over(Dist(store.coords[src], store.coords[g]), l, GENERAL_BOOST)
    /\ Dist(store.coords[g], store.coords[dst]) <= l
    /\ LegOf(src, g, dst) <= l + Eps6

Survivors(src, dst, l) ==
    { g \in DOMAIN store.main_stars : Survives(src, g, dst, l) }

\* the place of g in the iteration of the last query
PlaceOf(g) == CHOOSE i \in DOMAIN last.iteration : last.iteration[i] = g

\* C3: a bridge (G, leg_base) returned for (S, D, L) has distance(S, G) <=
\* L * BOOST, distance(G, D) <= L and leg_base = max(distance(S, G) / BOOST,
\* distance(G, D)) <= L + 1e-6; nothing is returned exactly when no general star
\* passes the three filters
C3_Bridge ==
    last.called =>
        IF last.found.some
        THEN /\ Survives(last.src, last.found.idx, last.dst, last.limit)
             /\ last.found.base = LegOf(last.src, last.found.idx, last.dst)
             /\ last.found.base <= last.limit + Eps6
        ELSE Survivors(last.src, last.dst, last.limit) = {}

\* a bridge was returned while another general star, in range of the
\* destination, was too far from the source
C3_Witness ==
    /\ last.called /\ last.found.some
    /\ \E g \in DOMAIN last.iteration :
           Over(Dist(store.coords[last.src], store.coords[last.iteration[g]]),
                last.limit, GENERAL_BOOST)

\* a search found no bridge although a general star lay in range of the
\* destination
C3_WitnessNone ==
    last.called /\ ~last.found.some /\ last.iteration # <<>>

-----------------------------------------------------------------------------
\* C4 as claimed: no surviving candidate has a leg_base strictly smaller than
\* the returned one, and of those that tie at the smallest the first of the
\* iteration is returned
C4_Original ==
    (last.called /\ last.found.some) =>
        \A g \in Survivors(last.src, last.dst, last.limit) :
            /\ LegOf(last.src, g, last.dst) >= last.found.base
            /\ LegOf(last.src, g, last.dst) = last.found.base
                   => PlaceOf(last.found.idx) <= PlaceOf(g)

\* C4 as amended: no surviving candidate has a leg_base smaller than the
\* returned one by more than 1e-6, and every surviving candidate met before the
\* returned one has a strictly larger leg_base (so of those that tie with the
\* returned one the first of the iteration is returned)
C4_Smallest ==
    (last.called /\ last.found.some) =>
        \A g \in Survivors(last.src, last.dst, last.limit) :
            /\ LegOf(last.src, g, last.dst) + Eps6 >= last.found.base
            /\ PlaceOf(g) < PlaceOf(last.found.idx)
                   => LegOf(last.src, g, last.dst) > last.found.base

\* the returned bridge replaced an earlier one, and a later surviving candidate
\* is smaller than it, by no more than 1e-6
C4_Witness ==
    /\ last.called /\ last.found.some
    /\ PlaceOf(last.found.idx) > 1
    /\ \E g \in Survivors(last.src, last.dst, last.limit) :
           /\ LegOf(last.src, g, last.dst) < last.found.base
           /\ PlaceOf(g) > PlaceOf(last.found.idx)

-----------------------------------------------------------------------------
\* n is a neutron star in range of src at the limit l that makes progress
CandidateOf(src, n, l) ==
    /\ n \in DOMAIN store.main_stars /\ store.main_stars[n] = "Neutron"
    /\ n # src
    /\ ~Over(Dist(store.coords[n], store.coords[src]), l, GENERAL_BOOST + 1)
    /\ goal_dist(n) + Eps3 < goal_dist(src)

\* C5: the committed hop is the first candidate, in ascending order of the
\* distance to the goal, that has a bridge at the working limit: no candidate
\* strictly closer to the goal than the chosen one has a bridge at that limit,
\* the candidates still to try are ascending, and a hop rejected at a limit is
\* not tried again at that limit
C5_FirstWithBridge ==
    /\ (last.called /\ last.found.some) =>
           \A n \in DOMAIN store.main_stars :
               (CandidateOf(last.src, n, last.limit)
                    /\ goal_dist(n) < goal_dist(last.dst))
               => /\ ~HasBridge(last.src, n, last.limit)
                  /\ <<last.src, n>> \in rejected
    /\ rpc = "scan" =>
           /\ \A i, j \in DOMAIN candidates :
                  i < j => /\ candidates[i].dist_goal <= candidates[j].dist_goal
                           /\ candidates[i].nidx # candidates[j].nidx
           /\ \A i \in DOMAIN candidates :
                  /\ <<current, candidates[i].nidx>> \notin rejected
                  /\ CandidateOf(current, candidates[i].nidx, limit)

\* a hop was committed after a candidate closer to the goal was rejected in
\* the same round
C5_Witness ==
    /\ last.called /\ last.found.some
    /\ \E n \in DOMAIN store.main_stars :
           /\ CandidateOf(last.src, n, last.limit)
           /\ goal_dist(n) < goal_dist(last.dst)
           /\ <<last.src, n>> \in rejected

-----------------------------------------------------------------------------
RECURSIVE SeqMax(_)
SeqMax(q) == IF q = <<>> THEN 0 ELSE Max(SeqMax(Tail(q)), Head(q))

\* C6: required_base is the largest leg_base of the bridges committed so far,
\* 0 when there are none; so is the required_base returned with a route; and
\* required_base never decreases
C6_RequiredBase ==
    /\ [](required_base = SeqMax(legs))
    /\ []((Returned /\ result.some) =>
             /\ result.required_base = SeqMax(legs)
             /\ Len(result.generals) = Len(legs))
    /\ [][required_base' >= required_base]_vars

\* a route of two hops came back whose first leg needed more than its second
C6_Witness ==
    /\ Returned /\ result.some
    /\ Len(legs) = 2 /\ legs[1] > legs[2]
    /\ result.required_base = legs[1]

-----------------------------------------------------------------------------
\* C7 as claimed: whenever the working limit is above 1000 the search has
\* aborted with the failure outcome, and no bridge search runs at such a limit
C7_Original ==
    /\ (pc = "routing" /\ limit > Ceiling) => rpc \in {"head", "returned"}
    /\ (Returned /\ limit > Ceiling) => ~result.some
    /\ last.called => last.limit <= Ceiling

\* C7 as amended: a working limit that a stall has raised above 1000 ends the
\* search with the failure outcome at once, so with a base limit of at most
\* 1000 no bridge search runs and no hop is committed above 1000; a base limit
\* above 1000 is itself searched, and is the only such limit that is
C7_Ceiling ==
    /\ (pc = "routing" /\ limit > Ceiling /\ limit > base_limit)
           => (Returned /\ ~result.some)
    /\ (pc = "routing" /\ limit > Ceiling /\ base_limit <= Ceiling)
           => rpc \in {"head", "returned"}
    /\ (Returned /\ ~result.some) => limit > Ceiling
    /\ last.called =>
           last.limit <= (IF base_limit > Ceiling THEN base_limit ELSE Ceiling)

\* the base limit 1000 was searched, the stall raised it to 1001 and the
\* router gave up
C7_Witness ==
    /\ Returned /\ ~result.some
    /\ base_limit = Ceiling /\ limit = Ceiling + LY
    /\ last.called /\ last.limit = Ceiling

-----------------------------------------------------------------------------
EmptyRoute == [some |-> TRUE, generals |-> <<>>, required_base |-> 0, jumps |-> 0]

\* C8: with the start id equal to the goal id greedy_fast_route returns at
\* once a route of no bridges, required range 0 and 0 jumps, having queried no
\* index, searched no bridge and raised no limit; main never calls it so: it
\* ends Ok, with no search and no summary
C8_SameSystem ==
    /\ (entry = "direct" /\ start_idx = goal_idx) =>
           /\ rpc \in {"head", "returned"}
           /\ candidates = <<>> /\ ~last.called /\ rejected = {}
           /\ limit = base_limit /\ no_progress_iters = 0
           /\ Returned => result = EmptyRoute
    /\ (entry = "main" /\ pc \in {"checked", "routing", "exit"} /\ store.ok
          /\ start_name \in DOMAIN store.name_to_idx
          /\ goal_name \in DOMAIN store.name_to_idx
          /\ store.name_to_idx[start_name] = store.name_to_idx[goal_name]
          /\ IsNeutron(store, store.name_to_idx[start_name])) =>
           /\ rpc = "idle" /\ pc # "routing"
           /\ pc = "exit" => (exit = "Ok" /\ ~route_txt.written)

\* greedy_fast_route, called with the start as the goal, has returned
C8_Witness ==
    entry = "direct" /\ start_idx = goal_idx /\ Returned /\ result = EmptyRoute

\* main ended Ok on a neutron star given as start and as goal
C8_WitnessMain ==
    /\ entry = "main" /\ pc = "exit" /\ exit = "Ok" /\ rpc = "idle"
    /\ start_idx = goal_idx

-----------------------------------------------------------------------------
NotFound == {"Start system not found", "Destination system not found"}
NotNeutron == {"Start system must be a neutron star",
               "Destination system must be a neutron star"}

\* C9: when the start or the goal resolves to an entity that is no neutron
\* star main ends with the category error of that name, and when a name does
\* not resolve with the lookup error, in both cases without having called
\* greedy_fast_route or written a summary, the same entity given twice
\* included; the router is only ever called on two neutron stars
C9_Category ==
    entry = "main" =>
      /\ rpc # "idle" => (IsNeutron(store, start_idx) /\ IsNeutron(store, goal_idx))
      /\ (pc = "exit" /\ store.ok) =>
           IF start_name \notin DOMAIN store.name_to_idx
           THEN exit = "Start system not found"
           ELSE IF goal_name \notin DOMAIN store.name_to_idx
           THEN exit = "Destination system not found"
           ELSE IF ~IsNeutron(store, store.name_to_idx[start_name])
           THEN exit = "Start system must be a neutron star"
           ELSE IF ~IsNeutron(store, store.name_to_idx[goal_name])
           THEN exit = "Destination system must be a neutron star"
           ELSE exit \notin (NotFound \cup NotNeutron)
      /\ exit \in (NotFound \cup NotNeutron) =>
           (rpc = "idle" /\ ~last.called /\ ~route_txt.written)

\* main ended with the category error on one general star given as start and
\* as goal
C9_Witness ==
    /\ entry = "main" /\ pc = "exit"
    /\ exit = "Start system must be a neutron star"
    /\ start_idx = goal_idx /\ store.main_stars[start_idx] = "General"

-----------------------------------------------------------------------------
\* C10: route.txt is written only once the router has returned a route, and
\* main then ends Ok; a run that ends in an error has written no summary, and
\* the run in which the router returned None ends with the error "No route
\* found within search bounds"
C10_Summary ==
    /\ route_txt.written =>
           /\ entry = "main" /\ Returned /\ result.some
           /\ pc = "exit" /\ exit = "Ok"
    /\ (pc = "exit" /\ exit # "Ok") => ~route_txt.written
    /\ (entry = "main" /\ pc = "exit" /\ Returned) =>
           IF result.some THEN exit = "Ok" /\ route_txt.written
           ELSE exit = "No route found within search bounds"
    /\ exit = "No route found within search bounds" => (Returned /\ ~result.some)

\* main ended with the search exhausted and no summary
C10_Witness ==
    /\ pc = "exit" /\ exit = "No route found within search bounds"
    /\ Returned /\ ~result.some /\ ~route_txt.written

-----------------------------------------------------------------------------
\* C11 as claimed: the jump count written to route.txt is twice the number of
\* bridges of the route
C11_Original ==
    route_txt.written =>
        /\ route_txt.jumps = 2 * Len(result.generals)
        /\ route_txt.jumps = result.jumps

-----------------------------------------------------------------------------
\* what a name resolves to under the default aliases
UnderDefault(name) ==
    IF name = <<JP, "Sol">> THEN <<"Jackson's Lighthouse">>
    ELSE IF name = <<JP, "Colonia">> THEN <<"Magellan">>
    ELSE name

\* main resolves the names while jumppoints.json is absent
ResolvesAbsent == entry = "main" /\ pc = "read" /\ ~alias_file.exists

\* C12 as claimed: with jumppoints.json absent every name, one with the marker
\* JP: too, resolves to itself, and the run goes on to the lookup
C12_Original ==
    [][ResolvesAbsent =>
          /\ start_name' = start_name_raw /\ goal_name' = goal_name_raw
          /\ pc' = "resolved" /\ exit' = ""]_vars

\* C12 as amended: an absent jumppoints.json is no error and the run goes on to
\* the lookup; the file is created with the default aliases and the names are
\* resolved with these (JP:Sol to Jackson's Lighthouse, a name without the
\* marker or with an alias that is not a key to itself); only when the file
\* cannot be created is the mapping empty and every name resolved to itself
C12_AbsentAliases ==
    [][ResolvesAbsent =>
          /\ pc' = "resolved" /\ exit' = ""
          /\ IF alias_file.creatable
             THEN /\ alias_file' = FileOf(DefaultAliases)
                  /\ start_name' = UnderDefault(start_name_raw)
                  /\ goal_name' = UnderDefault(goal_name_raw)
             ELSE /\ alias_file' = alias_file
                  /\ start_name' = start_name_raw
                  /\ goal_name' = goal_name_raw]_vars

\* the file was absent and has been created, JP:Sol was resolved to Jackson's
\* Lighthouse and JP:Nowhere to itself, and the lookup is next
C12_Witness ==
    /\ entry = "main" /\ pc = "resolved" /\ exit = ""
    /\ alias_file = FileOf(DefaultAliases)
    /\ start_name_raw = <<JP, "Sol">> /\ start_name = <<"Jackson's Lighthouse">>
    /\ goal_name_raw = <<JP, "Nowhere">> /\ goal_name = goal_name_raw

-----------------------------------------------------------------------------
\* the scenario: the store of neutron stars at 0, 50, 100 (ids 1, 2, 3) and a
\* general star at 25 (id 4), routed from the star at 0 to the star at 100 from
\* the base limit 10
InScenario ==
    /\ image.ok /\ image.ents = ImgScenario
    /\ pc = "routing" /\ start_idx = 1 /\ goal_idx = 3
    /\ base_limit = BaseLy * LY

\* the limit 25 at which the general star comes into range of the star at 50
ScenarioLimit == 25 * LY

\* C13: in the scenario the hop from the star at 0 to the star at 50 is
\* rejected at the base limit 10, no hop is committed while the working limit
\* is below 25, and the first hop committed is that hop, over the general star
\* with leg_base 25, committed at the limit 25 (beyond 25 it has been committed)
C13_Scenario ==
    InScenario =>
        /\ ~HasBridge(1, 2, base_limit)
        /\ (limit = base_limit /\ rpc = "scan" /\ candidates = <<>>)
               => rejected = {<<1, 2>>}
        /\ limit < ScenarioLimit => (path = <<1>> /\ generals = <<>> /\ current = 1)
        /\ limit > ScenarioLimit => Len(path) >= 2
        /\ Len(path) >= 2 =>
               /\ limit >= ScenarioLimit
               /\ path[2] = 2 /\ generals[1] = 4 /\ legs[1] = ScenarioLimit
        /\ (Len(path) = 2 /\ limit = ScenarioLimit /\ rpc = "head") =>
               /\ last.called /\ last.found.some
               /\ last.src = 1 /\ last.dst = 2 /\ last.limit = ScenarioLimit
               /\ last.found.idx = 4 /\ last.found.base = ScenarioLimit
               /\ required_base = ScenarioLimit

\* the first hop has just been committed, at the limit 25, after the hop to
\* the goal was rejected in the same round
C13_Witness ==
    /\ InScenario /\ entry = "main"
    /\ limit = ScenarioLimit /\ no_progress_iters = 0 /\ rpc = "head"
    /\ path = <<1, 2>> /\ generals = <<4>> /\ legs = <<ScenarioLimit>>
    /\ <<1, 3>> \in rejected

-----------------------------------------------------------------------------
KindOf(idx) == store.main_stars[idx]

\* C14: in every state of the router every bridge accumulated is a general
\* star and the current position a neutron star, and so is every position
\* visited, every candidate, every bridge find_bridge_general returns and every
\* bridge of the route returned
C14_Categories ==
    rpc # "idle" =>
        /\ \A i \in DOMAIN generals : KindOf(generals[i]) = "General"
        /\ KindOf(current) = "Neutron"
        /\ \A i \in DOMAIN path : KindOf(path[i]) = "Neutron"
        /\ \A i \in DOMAIN candidates : KindOf(candidates[i].nidx) = "Neutron"
        /\ (last.called /\ last.found.some) => KindOf(last.found.idx) = "General"
        /\ last.called =>
               \A i \in DOMAIN last.iteration : KindOf(last.iteration[i]) = "General"
        /\ (Returned /\ result.some) =>
               \A i \in DOMAIN result.generals : KindOf(result.generals[i]) = "General"

\* a route came back one of whose hops passed by a star of unknown category
\* that would have needed less range than the bridge chosen, and one of whose
\* hops passed over a star that is no neutron star, in reach and closer to the
\* goal than the star hopped to
C14_Witness ==
    /\ Returned /\ result.some
    /\ \E i \in DOMAIN legs : \E u \in DOMAIN store.main_stars :
           /\ KindOf(u) = "Unknown"
           /\ LegOf(path[i], u, path[i + 1]) < legs[i]
    /\ \E i \in DOMAIN legs : \E g \in DOMAIN store.main_stars :
           /\ KindOf(g) # "Neutron"
           /\ goal_dist(g) < goal_dist(path[i + 1])
           /\ goal_dist(g) + Eps3 < goal_dist(path[i])
           /\ ~Over(Dist(store.coords[g], store.coords[path[i]]),
                    base_limit, EdgeFactor)

-----------------------------------------------------------------------------
-----------------------------------------------------------------------------
\* C16: all along there is one bridge per committed hop, in the order of the
\* hops (the i-th bridge is a general star whose leg_base for the i-th hop is
\* the one committed with it); the route returned holds these bridges, its
\* jump count is twice their number, and it is returned only with the current
\* position at the goal
C16_Route ==
    rpc # "idle" =>
        /\ Len(generals) = Len(path) - 1 /\ steps = Len(generals)
        /\ Len(legs) = Len(generals)
        /\ path[1] = start_idx /\ path[Len(path)] = current
        /\ \A i \in DOMAIN generals :
               legs[i] = LegOf(path[i], generals[i], path[i + 1])
        /\ (Returned /\ result.some) =>
               /\ current = goal_idx
               /\ result.generals = generals
               /\ result.jumps = 2 * Len(result.generals)
               /\ result.jumps = 2 * (Len(path) - 1)
        /\ (Returned /\ ~result.some) => current # goal_idx

\* a route of two hops over two different bridges came back, which in the
\* other order would not fit the hops
C16_Witness ==
    /\ Returned /\ result.some
    /\ Len(result.generals) = 2 /\ result.jumps = 4
    /\ result.generals[1] # result.generals[2]
    /\ legs[1] # LegOf(path[1], result.generals[2], path[2])

-----------------------------------------------------------------------------
\* no candidate of the round is left and none had a bridge: the step to come
\* is the stall step
Stalling == pc = "routing" /\ rpc = "scan" /\ candidates = <<>>

\* the step commits a hop
Hopping == pc = "routing" /\ rpc = "scan" /\ Len(path') = Len(path) + 1

\* C17: a stall step raises the working limit by exactly 1.0 and the stall
\* counter by 1 and leaves the current position, the bridges and required_base
\* as they are; a hop step sets the stall counter to 0 and leaves the working
\* limit as it is
C17_Frame ==
    [][/\ Stalling =>
            /\ limit' = limit + LY
            /\ no_progress_iters' = no_progress_iters + 1
            /\ current' = current /\ generals' = generals
            /\ required_base' = required_base
       /\ Hopping =>
            /\ no_progress_iters' = 0
            /\ limit' = limit
            /\ current' # current /\ Len(generals') = Len(generals) + 1]_vars

\* stalls, then a hop, then a stall: the counter is back at 1 and the limit
\* is still the escalated one, raised once more
C17_Witness ==
    /\ pc = "routing" /\ rpc = "head"
    /\ Len(path) >= 2 /\ no_progress_iters = 1
    /\ limit >= base_limit + 3 * LY
    /\ required_base > 0 /\ current = path[Len(path)]

-----------------------------------------------------------------------------
\* C18: the working limit is the base limit plus one light-year for every
\* stall of the whole search, the stalls before earlier hops included; no
\* step of the search lowers it, and every bridge search runs at a limit no
\* higher than it, every hop being committed at the limit all stalls so far
\* have reached
C18_Limit ==
    /\ [](rpc # "idle" =>
             /\ limit = base_limit + stalls * LY
             /\ stalls >= no_progress_iters
             /\ last.called => (last.limit <= limit /\ last.limit >= base_limit))
    /\ [][pc = "routing" => limit' >= limit]_vars
    /\ [][Hopping => last'.limit = base_limit + stalls * LY]_vars

\* a route of two hops came back with stalls before the first hop and more
\* stalls before the second
C18_Witness ==
    /\ Returned /\ result.some /\ Len(path) = 3
    /\ no_progress_iters = 0 /\ stalls >= 2
    /\ limit = base_limit + stalls * LY
    /\ legs[1] > base_limit + Eps6 /\ legs[2] > legs[1] + Eps6

-----------------------------------------------------------------------------
\* C19: in every state of the router required_base <= working limit + 1e-6;
\* so the required_base of a route returned is at most the final working limit
\* + 1e-6, and at most 1000 + 1e-6 when the base limit is at most 1000
C19_Required ==
    rpc # "idle" =>
        /\ required_base <= limit + Eps6
        /\ \A i \in DOMAIN legs : legs[i] <= limit + Eps6
        /\ (Returned /\ result.some) =>
               /\ result.required_base <= limit + Eps6
               /\ base_limit <= Ceiling => result.required_base <= Ceiling + Eps6

\* a route of two hops came back whose required_base is the final working
\* limit and exceeds the base limit
C19_Witness ==
    /\ Returned /\ result.some /\ Len(path) = 3
    /\ result.required_base > base_limit + Eps6
    /\ result.required_base = limit
    /\ base_limit <= Ceiling

-----------------------------------------------------------------------------
\* C20: the positions of a run, the start and the star of every committed
\* hop, are pairwise different stars, so there are at most as many hops as
\* there are neutron stars less one
C20_NoRevisit ==
    rpc # "idle" =>
        /\ \A i, j \in DOMAIN path : i < j => path[i] # path[j]
        /\ Len(path) - 1 <= Cardinality(neutron_tree) - 1
        /\ steps <= Cardinality(neutron_tree) - 1

\* a route came back that visited every neutron star of the store, three at
\* least, each of them in reach of the last position at the final limit
C20_Witness ==
    /\ Returned /\ result.some
    /\ Len(path) >= 3 /\ Len(path) = Cardinality(neutron_tree)
    /\ \A i \in DOMAIN path :
           path[i] \in Within(neutron_tree, store.coords, store.coords[current],
                              limit, EdgeFactor)

=============================================================================
